---------------------------- MODULE Spec2Model ----------------------------
(***************************************************************************)
(* Model of the MCP papers server (mcp_papers_server.py): the PapersService *)
(* cache and the six tool handlers that read and write it.                  *)
(*                                                                          *)
(* Handlers are asyncio coroutines.  A handler runs atomically up to an    *)
(* await of run_in_executor; there it is suspended (a task with a pc) and  *)
(* resumes when the executor job ends.  A handler without an await is one  *)
(* action.  The host awaits every call, so one call is in progress at a    *)
(* time.                                                                    *)
(*                                                                          *)
(* Text values (titles, summaries) are abstracted to an identity and a     *)
(* length in characters, with the amount of surrounding whitespace; other  *)
(* strings are sequences of tokens.  An optional value is a sequence of    *)
(* length 0 (None) or 1.                                                    *)
(***************************************************************************)
EXTENDS Integers, Sequences, FiniteSets, TLC

(* ------------------------------ bounds --------------------------------- *)

\* longest provider answer built from arbitrary records
MaxSeq == 2
\* longest provider answer overall (a cyclic run through the catalogue)
MaxLong == 17
\* integer arguments a caller passes run from -MaxNegArg to MaxSmallArg
MaxNegArg == 1
MaxSmallArg == 2
\* longest text the generation provider returns, in characters
MaxText == 1

(* --------------------------- program constants -------------------------- *)

\* mcp_papers_client.py:186  the host awaits every call before it issues the
\* next one, so the server has at most one call in progress
MaxOutstanding == 1

\* mcp_papers_server.py:116  min(max(1, max_results), 10)
LowerLimit == 1
UpperLimit == 10
\* mcp_papers_server.py:175  summary[:1000]
SummaryCap == 1000
\* mcp_papers_server.py:176  authors[:5]
AuthorsCap == 5
\* mcp_papers_server.py:180  categories[:3]
CategoriesCap == 3
\* mcp_papers_server.py:515  title[:100]
TitleCap == 100
\* mcp_papers_server.py:516  unique_categories[:10]
CategoriesInfoCap == 10
\* mcp_papers_server.py:559  search_papers_async(query, 5)
ChatSearchLimit == 5
\* mcp_papers_server.py:287  papers[:5]
ContextCap == 5
\* mcp_papers_server.py:288  paper["authors"][:2]
ContextAuthorsCap == 2
\* mcp_papers_server.py:293  paper["summary"][:500]
ContextSummaryCap == 500

(* ------------------------------ helpers --------------------------------- *)

Min(a, b) == IF a <= b THEN a ELSE b
Max(a, b) == IF a >= b THEN a ELSE b

None == <<>>
Some(x) == <<x>>

\* Python s[:k] on a list
Take(s, k) == SubSeq(s, 1, Min(Len(s), k))

Range(s) == {s[i] : i \in DOMAIN s}

\* str.strip() on a text value: the surrounding whitespace goes
StripText(t) == [text |-> t.text, len |-> t.len, ws |-> 0]

\* Python t[:k] on a stripped text value
TruncText(t, k) == [text |-> t.text, len |-> Min(t.len, k), ws |-> t.ws]

\* str.strip() on a token string: leading and trailing " " tokens go
RECURSIVE LStrip(_)
LStrip(s) == IF s # <<>> /\ Head(s) = " " THEN LStrip(Tail(s)) ELSE s

RECURSIVE RStrip(_)
RStrip(s) ==
    IF s # <<>> /\ s[Len(s)] = " " THEN RStrip(SubSeq(s, 1, Len(s) - 1)) ELSE s

Strip(s) == RStrip(LStrip(s))

(* ------------------------- the search provider ------------------------- *)

\* arxiv.Result records the provider can yield.  The second one has no title:
\* result.title.strip() raises on it.
RawRecords ==
    << [ title      |-> Some([text |-> "T1", len |-> 120, ws |-> 2]),
         summary    |-> [text |-> "S1", len |-> 1200, ws |-> 1],
         authors    |-> <<"Ana", "Bo", "Cy", "Di", "Ed", "Flo">>,
         published  |-> Some(<<"2023", "01", "15">>),
         entry_id   |-> "u1",
         pdf_url    |-> "p1",
         categories |-> <<"cs.AI", "cs.LG", "cs.AI", "stat.ML">> ],
       [ title      |-> None,
         summary    |-> [text |-> "S2", len |-> 10, ws |-> 0],
         authors    |-> <<"Ida", "Jo">>,
         published  |-> Some(<<"2023", "05", "30">>),
         entry_id   |-> "u2",
         pdf_url    |-> "p2",
         categories |-> <<"cs.LG">> ],
       [ title      |-> Some([text |-> "T3", len |-> 80, ws |-> 0]),
         summary    |-> [text |-> "S3", len |-> 600, ws |-> 3],
         authors    |-> <<"Bo", "Ana", "Gil">>,
         published  |-> None,
         entry_id   |-> "u3",
         pdf_url    |-> "p3",
         categories |-> <<"cs.AI">> ] >>

RawIds == DOMAIN RawRecords

\* what client.results(search) yields: any short list of records, or a long
\* run through the catalogue with more usable records than any limit; the
\* provider is not trusted to respect the limit
ShortResults == UNION {[1..n -> RawIds] : n \in 0..MaxSeq}
LongResults ==
    {[i \in 1..n |-> ((i - 1) % Len(RawRecords)) + 1] : n \in (MaxLong - 1)..MaxLong}
ProviderResults == ShortResults \cup LongResults

\* outcome of one provider request: it raises, or yields a list of records
ProviderOutcomes ==
    {[kind |-> "raise", results |-> <<>>]}
        \cup {[kind |-> "ok", results |-> r] : r \in ProviderResults}

(* ----------------------- the generation provider ----------------------- *)

GenChars == {" ", "x"}
GenTexts == UNION {[1..n -> GenChars] : n \in 0..MaxText}

\* outcome of model.generate_content: it raises, returns a response without
\* text, or returns a response with a text (possibly empty or blank)
GenOutcomes ==
    {[kind |-> "raise", text |-> <<>>], [kind |-> "none", text |-> <<>>]}
        \cup {[kind |-> "text", text |-> t] : t \in GenTexts}

(* ------------------------------- inputs -------------------------------- *)

\* integer arguments: the small ones, and those around the upper limit
IntArgs == ((0 - MaxNegArg)..MaxSmallArg) \cup {UpperLimit, UpperLimit + 1}
Queries == {<<>>, <<"quantum">>}
AnalysisTypes == {"summary", "trends", "comparison", "bogus"}
ChatMessages ==
    {<<"quantum">>, <<"Busque">>, <<"busque", "quantum">>}

TaskIds == 1..MaxOutstanding

(* ------------------------------- state --------------------------------- *)

VARIABLES
    cache,          \* papers_service.papers_cache
    tasks,          \* the suspended handler, if any, of each task slot
    resp,           \* envelope returned by the handler that finished last
    lastOp,         \* the handler step taken last: "tool" for a handler that
                    \* ran from entry to return, "tool:await" for one that
                    \* was suspended, "tool:resume" for one that resumed and
                    \* returned
    prevOp,         \* what the step before that one was: a clear_cache, a
                    \* search that returned success, or anything else
    lastArgs,       \* its arguments
    providerLimit,  \* limit handed to the search provider in that step, 0 if
                    \* the step made no provider request
    genInvoked      \* whether that step issued a generation request

\* the server's variables
serverVars ==
    <<cache, tasks, resp, lastOp, prevOp, lastArgs, providerLimit, genInvoked>>

VARIABLES
    session,        \* self.session of the PapersClient: "None", or the state
                    \* of the ClientSession object it holds: "created",
                    \* "entered" or "exited"
    stdio_context,  \* self.stdio_context, likewise
    tools,          \* self.tools: the names of the registry
    transport,      \* the channel to the server process: "none" before it is
                    \* opened, then "open", "broken" or "closed"
    hpc,            \* where the host is: "new", the connect steps, "menu",
                    \* "call:await", the steps of the finally block,
                    \* "returned"
    handshake,      \* the protocol steps that completed, in order
    sent,           \* call requests put on the channel, in order
    replies,        \* call responses the server put on the channel, in order
    resolved,       \* ids of the calls the host saw resolve, in order
    pending,        \* id of the call the host is waiting for, 0 if none
    called,         \* the last call_tool: its number, where it was called
                    \* from, its tool name and how it ended
    exitPath,       \* how run_interactive left its try block, "none" before
    closeRaised,    \* the __aexit__ calls of the finally block that raised
    last_results    \* self.last_results: the papers of the last search the
                    \* host saw succeed

\* the host's variables
hostVars ==
    <<session, stdio_context, tools, transport, hpc, handshake, sent, replies,
      resolved, pending, called, exitPath, closeRaised, last_results>>

vars == <<serverVars, hostVars>>

Idle == [pc |-> "idle"]

NoArgs == [none |-> TRUE]

\* the value prevOp takes after a step lastOp that left the envelope r
Kind(op, r) ==
    IF op = "clear_cache" THEN "clear_cache"
    ELSE IF op = "search_papers:resume" /\ r.success THEN "search_papers:ok"
    ELSE "other"

(* ---------------------------- PapersService ---------------------------- *)

\* line 116: max_results = min(max(1, max_results), 10)
ClampNoUpper(max_results) == Max(LowerLimit, max_results)
Clamp(max_results) == Min(Max(LowerLimit, max_results), UpperLimit)

\* lines 170-185: building the paper dict raises when a field access fails
ProcessRaises(r) == r.title = None

\* lines 173-181
MakePaper(r) ==
    [ title      |-> StripText(r.title[1]),
      summary    |-> TruncText(StripText(r.summary), SummaryCap),
      authors    |-> Take(r.authors, AuthorsCap),
      published  |-> IF r.published # None THEN r.published[1] ELSE <<"N/A">>,
      url        |-> r.entry_id,
      pdf_url    |-> r.pdf_url,
      categories |-> Take(r.categories, CategoriesCap) ]

\* lines 165-187: the loop over client.results(search)
RECURSIVE SearchLoopNoBreak(_, _, _, _)
SearchLoopNoBreak(results, i, papers, max_results) ==
    IF i > Len(results)
    THEN papers
    ELSE IF ProcessRaises(RawRecords[results[i]])
         THEN SearchLoopNoBreak(results, i + 1, papers, max_results)
         ELSE SearchLoopNoBreak(results, i + 1,
                         Append(papers, MakePaper(RawRecords[results[i]])),
                         max_results)

RECURSIVE SearchLoopPrepend(_, _, _, _)
SearchLoopPrepend(results, i, papers, max_results) ==
    IF i > Len(results) \/ Len(papers) >= max_results
    THEN papers
    ELSE IF ProcessRaises(RawRecords[results[i]])
         THEN SearchLoopPrepend(results, i + 1, papers, max_results)
         ELSE SearchLoopPrepend(results, i + 1,
                         <<MakePaper(RawRecords[results[i]])>> \o papers,
                         max_results)

RECURSIVE SearchLoop(_, _, _, _)
SearchLoop(results, i, papers, max_results) ==
    IF i > Len(results) \/ Len(papers) >= max_results
    THEN papers
    ELSE IF ProcessRaises(RawRecords[results[i]])
         THEN SearchLoop(results, i + 1, papers, max_results)
         ELSE SearchLoop(results, i + 1,
                         Append(papers, MakePaper(RawRecords[results[i]])),
                         max_results)

\* lines 141-187
SearchPapersSync(results, max_results) == SearchLoop(results, 1, <<>>, max_results)

\* lines 124-139: what search_papers_async does when the executor job ends;
\* the new value of the cache and the list it returns
CacheAfterSearchClearOnRaise(old, outcome, limit) ==
    IF outcome.kind = "raise" THEN <<>>
    ELSE SearchPapersSync(outcome.results, limit)
CacheAfterSearchKeepOnEmpty(old, outcome, limit) ==
    IF outcome.kind = "raise" \/ SearchPapersSync(outcome.results, limit) = <<>>
    THEN old
    ELSE SearchPapersSync(outcome.results, limit)
CacheAfterSearchMerge(old, outcome, limit) ==
    IF outcome.kind = "raise" THEN old
    ELSE LET new == SearchPapersSync(outcome.results, limit)
         IN  new \o SelectSeq(old, LAMBDA p : p \notin Range(new))
CacheAfterSearchAppend(old, outcome, limit) ==
    IF outcome.kind = "raise" THEN old
    ELSE old \o SearchPapersSync(outcome.results, limit)
CacheAfterSearch(old, outcome, limit) ==
    IF outcome.kind = "raise" THEN old
    ELSE SearchPapersSync(outcome.results, limit)

SearchReturn(outcome, limit) ==
    IF outcome.kind = "raise" THEN <<>>
    ELSE SearchPapersSync(outcome.results, limit)

\* line 274 / line 604: response.text.strip() if response and response.text
UsableText(gen) == gen.kind = "text" /\ gen.text # <<>>

\* lines 206-218 with line 274
AnalysisText(gen) ==
    IF gen.kind = "raise" THEN <<"Erro na analise: ", "generation failed">>
    ELSE IF UsableText(gen) THEN Strip(gen.text)
    ELSE <<"Analise nao disponivel.">>

\* lines 288-296: the entry of paper number i in the context
ContextEntryAllAuthors(i, paper) ==
    [ number    |-> i,
      title     |-> paper.title,
      authors   |-> paper.authors,
      et_al     |-> Len(paper.authors) > ContextAuthorsCap,
      published |-> paper.published,
      summary   |-> TruncText(paper.summary, ContextSummaryCap),
      url       |-> paper.url ]
ContextEntry(i, paper) ==
    [ number    |-> i,
      title     |-> paper.title,
      authors   |-> Take(paper.authors, ContextAuthorsCap),
      et_al     |-> Len(paper.authors) > ContextAuthorsCap,
      published |-> paper.published,
      summary   |-> TruncText(paper.summary, ContextSummaryCap),
      url       |-> paper.url ]

\* lines 286-298: _format_papers_context, the entries in order
FormatPapersContext(papers) ==
    [i \in 1..Min(Len(papers), ContextCap) |-> ContextEntry(i, papers[i])]

(* ------------------------------ envelopes ------------------------------ *)

\* lines 351-356
SearchPapersResponse(papers, query) ==
    [ success |-> Len(papers) > 0,
      count   |-> Len(papers),
      papers  |-> papers,
      message |-> <<"Encontrados", Len(papers), "papers sobre", query>> ]

\* lines 375-396
GetPaperDetailsResponseIndex(c, paper_index) ==
    IF c = <<>>
    THEN [ success |-> FALSE, message |-> <<"Nenhum paper no cache.">> ]
    ELSE IF paper_index < 0 \/ paper_index >= Len(c)
    THEN [ success |-> FALSE,
           message |-> <<"Indice invalido. Cache contem", paper_index, "papers.">> ]
    ELSE [ success      |-> TRUE,
           paper        |-> c[paper_index + 1],
           index        |-> paper_index,
           total_cached |-> Len(c) ]
GetPaperDetailsResponseNeg(c, paper_index) ==
    IF c = <<>>
    THEN [ success |-> FALSE, message |-> <<"Nenhum paper no cache.">> ]
    ELSE IF paper_index + Len(c) < 0 \/ paper_index >= Len(c)
    THEN [ success |-> FALSE,
           message |-> <<"Indice invalido. Cache contem", Len(c), "papers.">> ]
    ELSE [ success      |-> TRUE,
           paper        |-> c[IF paper_index < 0 THEN paper_index + Len(c) + 1
                                                 ELSE paper_index + 1],
           index        |-> paper_index,
           total_cached |-> Len(c) ]
GetPaperDetailsResponse(c, paper_index) ==
    IF c = <<>>
    THEN [ success |-> FALSE, message |-> <<"Nenhum paper no cache.">> ]
    ELSE IF paper_index < 0 \/ paper_index >= Len(c)
    THEN [ success |-> FALSE,
           message |-> <<"Indice invalido. Cache contem", Len(c), "papers.">> ]
    ELSE [ success      |-> TRUE,
           paper        |-> c[paper_index + 1],
           index        |-> paper_index,
           total_cached |-> Len(c) ]

\* lines 461-464
ClearCacheResponseAfter(previous_count) ==
    [ success |-> TRUE, message |-> <<"Cache limpo.", 0, "papers removidos.">> ]
ClearCacheResponse(previous_count) ==
    [ success |-> TRUE,
      message |-> <<"Cache limpo.", previous_count, "papers removidos.">> ]

\* lines 494-497: categories.extend(...) over the cache, in order
RECURSIVE AllCategories(_)
AllCategories(c) ==
    IF c = <<>> THEN <<>> ELSE Head(c).categories \o AllCategories(Tail(c))

\* lines 502-509: the first "-"-separated segment of every date but "N/A"
RECURSIVE AllYears(_)
AllYears(c) ==
    IF c = <<>> THEN <<>>
    ELSE (IF Head(c).published # <<"N/A">> THEN <<Head(c).published[1]>> ELSE <<>>)
             \o AllYears(Tail(c))

\* line 518: sum(len(p.get("authors", [])) for p in cache)
TotalAuthorsDistinct(c) ==
    Cardinality(UNION {Range(c[i].authors) : i \in DOMAIN c})
RECURSIVE TotalAuthors(_)
TotalAuthors(c) ==
    IF c = <<>> THEN 0 ELSE Len(Head(c).authors) + TotalAuthors(Tail(c))

\* list(set(xs)): the elements of xs once each, in an order Python picks
Orderings(S) == {o \in [1..Cardinality(S) -> S] : Range(o) = S}

\* lines 482-520; catOrder and yearOrder are the orders list(set(...)) gave
GetCacheInfoResponseNoAuthors(c, catOrder, yearOrder) ==
    IF c = <<>>
    THEN [ success |-> TRUE, cached_papers |-> 0, message |-> <<"Cache vazio">> ]
    ELSE [ success           |-> TRUE,
           cached_papers     |-> Len(c),
           paper_titles      |-> [i \in DOMAIN c |-> TruncText(c[i].title, TitleCap)],
           categories        |-> Take(catOrder, CategoriesInfoCap),
           publication_years |-> yearOrder,
           message           |-> <<"Cache contem", Len(c), "papers">> ]
GetCacheInfoResponse(c, catOrder, yearOrder) ==
    IF c = <<>>
    THEN [ success |-> TRUE, cached_papers |-> 0, message |-> <<"Cache vazio">> ]
    ELSE [ success           |-> TRUE,
           cached_papers     |-> Len(c),
           paper_titles      |-> [i \in DOMAIN c |-> TruncText(c[i].title, TitleCap)],
           categories        |-> Take(catOrder, CategoriesInfoCap),
           publication_years |-> yearOrder,
           total_authors     |-> TotalAuthors(c),
           message           |-> <<"Cache contem", Len(c), "papers">> ]

\* lines 424-429
ValidTypes == {"summary", "trends", "comparison"}

\* lines 416-429: the envelope of an analyze_papers call that is rejected
AnalyzeRejection(c, analysis_type) ==
    IF c = <<>>
    THEN [ success |-> FALSE, message |-> <<"Nenhum paper no cache.">> ]
    ELSE [ success |-> FALSE, message |-> <<"Tipo de analise invalido.">> ]

\* lines 416-429: whether analyze_papers goes on to the analysis
AnalyzeAcceptsAnyCache(c, analysis_type) == analysis_type \in ValidTypes
AnalyzeAcceptsAnyType(c, analysis_type) == c # <<>>
AnalyzeAccepts(c, analysis_type) == c # <<>> /\ analysis_type \in ValidTypes

\* lines 439-444
AnalyzeResponse(c, analysis_type, analysis) ==
    [ success         |-> TRUE,
      analysis_type   |-> analysis_type,
      papers_analyzed |-> Len(c),
      analysis        |-> analysis ]

\* line 547
SearchKeywords == {"busque", "procure", "encontre", "pesquise"}

\* str.lower() on one word
LowerWord(w) ==
    CASE w = "Busque" -> "busque"
      [] OTHER -> w

\* line 554: message.lower()
Lower(message) == [i \in DOMAIN message |-> LowerWord(message[i])]

\* line 548
NeedsSearchAlways(message) == TRUE
NeedsSearch(message) == \E i \in DOMAIN message : Lower(message)[i] \in SearchKeywords

\* lines 554-556: the message in lower case without the keywords, stripped
ChatQuery(message) ==
    Strip(SelectSeq(Lower(message), LAMBDA w : w \notin SearchKeywords))

\* lines 603-618
ChatResponseSwallow(message, gen, c) ==
    [ success           |-> TRUE,
      message           |-> message,
      response          |-> IF UsableText(gen) THEN Strip(gen.text)
                            ELSE <<"Nao foi possivel gerar uma resposta.">>,
      papers_in_context |-> Len(c) ]
ChatResponse(message, gen, c) ==
    IF gen.kind = "raise"
    THEN [ success |-> FALSE,
           message |-> <<"Erro ao processar mensagem: ", "generation failed">> ]
    ELSE [ success           |-> TRUE,
           message           |-> message,
           response          |-> IF UsableText(gen) THEN Strip(gen.text)
                                 ELSE <<"Nao foi possivel gerar uma resposta.">>,
           papers_in_context |-> Len(c) ]

(* ------------------------------- actions ------------------------------- *)

Init ==
    /\ cache = <<>>
    /\ tasks = [t \in TaskIds |-> Idle]
    /\ resp = [none |-> TRUE]
    /\ lastOp = "init"
    /\ prevOp = "other"
    /\ lastArgs = NoArgs
    /\ providerLimit = 0
    /\ genInvoked = FALSE
    /\ session = "None"
    /\ stdio_context = "None"
    /\ tools = {}
    /\ transport = "none"
    /\ hpc = "new"
    /\ handshake = <<>>
    /\ sent = <<>>
    /\ replies = <<>>
    /\ resolved = <<>>
    /\ pending = 0
    /\ called = [n |-> 0, from |-> "none", name |-> "none", outcome |-> "none"]
    /\ exitPath = "none"
    /\ closeRaised = {}
    /\ last_results = <<>>

\* `not query` of search_papers_async (line 112): the query is the empty
\* string
EmptyQueryNever(query) == FALSE
EmptyQuery(query) == query = <<>>

\* search_papers up to its await: an empty query returns [] at once
\* (lines 112-113), any other is clamped and handed to the executor
SearchPapers(t, query, max_results) ==
    /\ tasks[t] = Idle
    /\ lastArgs' = [query |-> query, max_results |-> max_results]
    /\ prevOp' = Kind(lastOp, resp)
    /\ genInvoked' = FALSE
    /\ UNCHANGED cache
    /\ IF EmptyQuery(query)
       THEN /\ resp' = SearchPapersResponse(<<>>, query)
            /\ lastOp' = "search_papers"
            /\ providerLimit' = 0
            /\ UNCHANGED tasks
       ELSE /\ tasks' = [tasks EXCEPT ![t] =
                           [ pc    |-> "search_papers",
                             query |-> query,
                             limit |-> Clamp(max_results) ]]
            /\ lastOp' = "search_papers:await"
            /\ providerLimit' = Clamp(max_results)
            /\ UNCHANGED resp
    /\ UNCHANGED hostVars

\* search_papers from the end of the executor job to its return
SearchPapersResume(t, outcome) ==
    /\ tasks[t].pc = "search_papers"
    /\ cache' = CacheAfterSearch(cache, outcome, tasks[t].limit)
    /\ resp' = SearchPapersResponse(SearchReturn(outcome, tasks[t].limit),
                                    tasks[t].query)
    /\ tasks' = [tasks EXCEPT ![t] = Idle]
    /\ lastOp' = "search_papers:resume"
    /\ lastArgs' = [query |-> tasks[t].query, limit |-> tasks[t].limit,
                    outcome |-> outcome]
    /\ prevOp' = Kind(lastOp, resp)
    /\ providerLimit' = 0
    /\ genInvoked' = FALSE
    /\ UNCHANGED hostVars

\* get_paper_details has no await
GetPaperDetailsPop(paper_index) ==
    /\ resp' = GetPaperDetailsResponse(cache, paper_index)
    /\ lastOp' = "get_paper_details"
    /\ lastArgs' = [paper_index |-> paper_index]
    /\ prevOp' = Kind(lastOp, resp)
    /\ providerLimit' = 0
    /\ genInvoked' = FALSE
    /\ cache' = IF resp'.success
                THEN SubSeq(cache, 1, paper_index)
                         \o SubSeq(cache, paper_index + 2, Len(cache))
                ELSE cache
    /\ UNCHANGED tasks
    /\ UNCHANGED hostVars
GetPaperDetails(paper_index) ==
    /\ resp' = GetPaperDetailsResponse(cache, paper_index)
    /\ lastOp' = "get_paper_details"
    /\ lastArgs' = [paper_index |-> paper_index]
    /\ prevOp' = Kind(lastOp, resp)
    /\ providerLimit' = 0
    /\ genInvoked' = FALSE
    /\ UNCHANGED <<cache, tasks>>
    /\ UNCHANGED hostVars

\* analyze_papers up to its await: rejected at once, or handed to the
\* executor together with the list the cache names at that moment
AnalyzePapers(t, analysis_type) ==
    /\ tasks[t] = Idle
    /\ lastArgs' = [analysis_type |-> analysis_type]
    /\ prevOp' = Kind(lastOp, resp)
    /\ providerLimit' = 0
    /\ UNCHANGED cache
    /\ IF AnalyzeAccepts(cache, analysis_type)
       THEN /\ tasks' = [tasks EXCEPT ![t] =
                           [ pc            |-> "analyze_papers",
                             analysis_type |-> analysis_type,
                             papers        |-> cache ]]
            /\ lastOp' = "analyze_papers:await"
            /\ genInvoked' = TRUE
            /\ UNCHANGED resp
       ELSE /\ resp' = AnalyzeRejection(cache, analysis_type)
            /\ lastOp' = "analyze_papers"
            /\ genInvoked' = FALSE
            /\ UNCHANGED tasks
    /\ UNCHANGED hostVars

\* analyze_papers from the end of the executor job to its return
AnalyzePapersResume(t, gen) ==
    /\ tasks[t].pc = "analyze_papers"
    /\ resp' = AnalyzeResponse(cache, tasks[t].analysis_type, AnalysisText(gen))
    /\ tasks' = [tasks EXCEPT ![t] = Idle]
    /\ lastOp' = "analyze_papers:resume"
    /\ lastArgs' = [analysis_type |-> tasks[t].analysis_type, gen |-> gen,
                    handed |-> Len(tasks[t].papers)]
    /\ prevOp' = Kind(lastOp, resp)
    /\ providerLimit' = 0
    /\ genInvoked' = FALSE
    /\ UNCHANGED cache
    /\ UNCHANGED hostVars

\* clear_cache has no await
ClearCacheKeep ==
    /\ resp' = ClearCacheResponse(Len(cache))
    /\ lastOp' = "clear_cache"
    /\ lastArgs' = NoArgs
    /\ prevOp' = Kind(lastOp, resp)
    /\ providerLimit' = 0
    /\ genInvoked' = FALSE
    /\ UNCHANGED <<cache, tasks>>
    /\ UNCHANGED hostVars
ClearCache ==
    /\ resp' = ClearCacheResponse(Len(cache))
    /\ cache' = <<>>
    /\ lastOp' = "clear_cache"
    /\ lastArgs' = NoArgs
    /\ prevOp' = Kind(lastOp, resp)
    /\ providerLimit' = 0
    /\ genInvoked' = FALSE
    /\ UNCHANGED tasks
    /\ UNCHANGED hostVars

\* get_cache_info has no await
GetCacheInfo ==
    /\ \E catOrder \in Orderings(Range(AllCategories(cache))),
          yearOrder \in Orderings(Range(AllYears(cache))) :
           resp' = GetCacheInfoResponse(cache, catOrder, yearOrder)
    /\ lastOp' = "get_cache_info"
    /\ lastArgs' = NoArgs
    /\ prevOp' = Kind(lastOp, resp)
    /\ providerLimit' = 0
    /\ genInvoked' = FALSE
    /\ UNCHANGED <<cache, tasks>>
    /\ UNCHANGED hostVars

\* chat_about_papers up to its await.  Without a keyword, or with a keyword
\* and nothing else (search_papers_async returns [] without awaiting), the
\* handler runs to its end: generate_content is called on the event loop.
ChatAboutPapers(t, message, gen) ==
    /\ tasks[t] = Idle
    /\ prevOp' = Kind(lastOp, resp)
    /\ UNCHANGED cache
    /\ IF NeedsSearch(message) /\ ChatQuery(message) # <<>>
       THEN /\ tasks' = [tasks EXCEPT ![t] =
                           [ pc      |-> "chat_about_papers",
                             message |-> message,
                             query   |-> ChatQuery(message),
                             limit   |-> Clamp(ChatSearchLimit) ]]
            /\ lastOp' = "chat_about_papers:await"
            /\ lastArgs' = [message |-> message]
            /\ providerLimit' = Clamp(ChatSearchLimit)
            /\ genInvoked' = FALSE
            /\ UNCHANGED resp
       ELSE /\ resp' = ChatResponse(message, gen, cache)
            /\ lastOp' = "chat_about_papers"
            /\ lastArgs' = [message |-> message, gen |-> gen]
            /\ providerLimit' = 0
            /\ genInvoked' = TRUE
            /\ UNCHANGED tasks
    /\ UNCHANGED hostVars

\* chat_about_papers from the end of the search to its return
ChatAboutPapersResume(t, outcome, gen) ==
    /\ tasks[t].pc = "chat_about_papers"
    /\ cache' = CacheAfterSearch(cache, outcome, tasks[t].limit)
    /\ resp' = ChatResponse(tasks[t].message, gen, cache')
    /\ tasks' = [tasks EXCEPT ![t] = Idle]
    /\ lastOp' = "chat_about_papers:resume"
    /\ lastArgs' = [message |-> tasks[t].message, gen |-> gen,
                    search |-> outcome.kind, outcome |-> outcome,
                    limit |-> tasks[t].limit]
    /\ prevOp' = Kind(lastOp, resp)
    /\ providerLimit' = 0
    /\ genInvoked' = TRUE
    /\ UNCHANGED hostVars

Next ==
    \/ \E t \in DOMAIN tasks, q \in Queries, m \in IntArgs : SearchPapers(t, q, m)
    \/ \E t \in DOMAIN tasks, o \in ProviderOutcomes : SearchPapersResume(t, o)
    \/ \E i \in IntArgs : GetPaperDetails(i)
    \/ \E t \in DOMAIN tasks, a \in AnalysisTypes : AnalyzePapers(t, a)
    \/ \E t \in DOMAIN tasks, g \in GenOutcomes : AnalyzePapersResume(t, g)
    \/ ClearCache
    \/ GetCacheInfo
    \/ \E t \in DOMAIN tasks, m \in ChatMessages, g \in GenOutcomes :
           ChatAboutPapers(t, m, g)
    \/ \E t \in DOMAIN tasks, o \in ProviderOutcomes, g \in GenOutcomes :
           ChatAboutPapersResume(t, o, g)

Spec == Init /\ [][Next]_vars

(* ----------------------------- PapersClient ---------------------------- *)

\* calls to call_tool in one run of the host
MaxCalls == 2

\* tool names the menu's wrappers pass to call_tool
MenuNames == {"search_papers", "get_cache_info"}

\* tool names a direct caller passes to call_tool
ApiNames == MenuNames \cup {"unknown_tool"}

\* registries list_tools can return: that of the papers server, or that of
\* a server that lacks one of the tools
Registries == {MenuNames, {"search_papers"}}

\* what a call response carries: text that decodes, no text content, or
\* text json.loads rejects
Payloads == {"json", "empty", "badjson"}

\* the record of a call_tool
Call(tool_name, outcome) ==
    [n |-> called.n + 1, from |-> hpc, name |-> tool_name, outcome |-> outcome]

\* run_interactive is entered and calls connect
RunInteractive ==
    /\ hpc = "new"
    /\ hpc' = "connect:stdio"
    /\ UNCHANGED <<session, stdio_context, tools, transport, handshake, sent,
                   replies, resolved, pending, called, exitPath, closeRaised>>
    /\ UNCHANGED <<last_results, serverVars>>

\* where connect goes when a step raises: it returns False and
\* run_interactive returns through its finally block
ConnectFailed ==
    /\ hpc' = "finally:session"
    /\ exitPath' = "connect"

\* connect, step 2: the stdio context is stored, then entered
ConnectStdio(ok) ==
    /\ hpc = "connect:stdio"
    /\ IF ok
       THEN /\ stdio_context' = "entered"
            /\ transport' = "open"
            /\ hpc' = "connect:session"
            /\ UNCHANGED exitPath
       ELSE /\ stdio_context' = "created"
            /\ ConnectFailed
            /\ UNCHANGED transport
    /\ UNCHANGED <<session, tools, handshake, sent, replies, resolved,
                   pending, called, closeRaised>>
    /\ UNCHANGED <<last_results, serverVars>>

\* connect, step 3: the session is stored, then entered
ConnectSession(ok) ==
    /\ hpc = "connect:session"
    /\ IF ok
       THEN /\ session' = "entered"
            /\ hpc' = "connect:initialize"
            /\ UNCHANGED exitPath
       ELSE /\ session' = "created"
            /\ ConnectFailed
    /\ UNCHANGED <<stdio_context, tools, transport, handshake, sent, replies,
                   resolved, pending, called, closeRaised>>
    /\ UNCHANGED <<last_results, serverVars>>

\* connect, step 4: the handshake; it cannot succeed on a broken channel
ConnectInitializeIgnored(ok) ==
    /\ hpc = "connect:initialize"
    /\ ok => transport = "open"
    /\ hpc' = "connect:list_tools"
    /\ handshake' = IF ok THEN Append(handshake, "initialize") ELSE handshake
    /\ UNCHANGED <<session, stdio_context, tools, transport, sent, replies,
                   resolved, pending, called, exitPath, closeRaised>>
    /\ UNCHANGED <<last_results, serverVars>>
ConnectInitialize(ok) ==
    /\ hpc = "connect:initialize"
    /\ ok => transport = "open"
    /\ IF ok
       THEN /\ handshake' = Append(handshake, "initialize")
            /\ hpc' = "connect:list_tools"
            /\ UNCHANGED exitPath
       ELSE /\ ConnectFailed
            /\ UNCHANGED handshake
    /\ UNCHANGED <<session, stdio_context, tools, transport, sent, replies,
                   resolved, pending, called, closeRaised>>
    /\ UNCHANGED <<last_results, serverVars>>

\* connect, step 5: the registry is fetched and stored; connect returns True
\* and the menu loop starts
ConnectListTools(ok, registry) ==
    /\ hpc = "connect:list_tools"
    /\ ok => transport = "open"
    /\ IF ok
       THEN /\ tools' = registry
            /\ handshake' = Append(handshake, "list_tools")
            /\ hpc' = "menu"
            /\ UNCHANGED exitPath
       ELSE /\ ConnectFailed
            /\ UNCHANGED <<tools, handshake>>
    /\ UNCHANGED <<session, stdio_context, transport, sent, replies,
                   resolved, pending, called, closeRaised>>
    /\ UNCHANGED <<last_results, serverVars>>

\* the registry check of call_tool
KnownToolAny(tool_name) == TRUE
KnownTool(tool_name) == tool_name \in tools

\* session.call_tool can put a request on the channel only through an
\* entered session over an open channel; otherwise it raises at once
CanSend == session = "entered" /\ transport = "open"

\* await session.call_tool(...): the request goes out and call_tool waits
SessionCallToolNoAwait(tool_name) ==
    /\ sent' = Append(sent, [id |-> Len(sent) + 1, name |-> tool_name])
    /\ pending' = Len(sent) + 1
    /\ called' = Call(tool_name, "awaiting")
    /\ UNCHANGED hpc
SessionCallTool(tool_name) ==
    /\ sent' = Append(sent, [id |-> Len(sent) + 1, name |-> tool_name])
    /\ pending' = Len(sent) + 1
    /\ called' = Call(tool_name, "awaiting")
    /\ hpc' = "call:await"

\* call_tool up to its await, called by a wrapper from the menu loop or
\* directly while run_interactive is not running.  An exception it raises
\* reaches the menu's except clause, or the direct caller; either way the
\* host stays where it was.
CallTool(tool_name) ==
    /\ hpc \in {"new", "menu", "returned"}
    /\ tool_name \in (IF hpc = "menu" THEN MenuNames ELSE ApiNames)
    /\ called.n < MaxCalls
    /\ IF session = "None"
       THEN /\ called' = Call(tool_name, "RuntimeError")
            /\ UNCHANGED <<hpc, sent, pending>>
       ELSE IF ~KnownTool(tool_name)
       THEN /\ called' = Call(tool_name, "ValueError")
            /\ UNCHANGED <<hpc, sent, pending>>
       ELSE IF CanSend
       THEN SessionCallTool(tool_name)
       ELSE /\ called' = Call(tool_name, "error:transport")
            /\ UNCHANGED <<hpc, sent, pending>>
    /\ UNCHANGED <<session, stdio_context, tools, transport, handshake,
                   replies, resolved, exitPath, closeRaised>>
    /\ UNCHANGED <<last_results, serverVars>>

\* requests on the channel the server has not answered
Unanswered ==
    {i \in DOMAIN sent : \A j \in DOMAIN replies : replies[j].id # sent[i].id}

\* the server answers a call request with a response of the same id
ServerReply(payload) ==
    /\ transport = "open"
    /\ Unanswered # {}
    /\ LET i == CHOOSE k \in Unanswered : \A l \in Unanswered : k <= l
       IN  replies' = Append(replies, [id |-> sent[i].id, payload |-> payload])
    /\ UNCHANGED <<session, stdio_context, tools, transport, hpc, handshake,
                   sent, resolved, pending, called, exitPath, closeRaised>>
    /\ UNCHANGED <<last_results, serverVars>>

\* what call_tool returns for a response
DecodeAny(payload) == "result"
Decode(payload) ==
    IF payload = "json" THEN "result"
    ELSE IF payload = "empty" THEN "error:format"
    ELSE "error:decode"

\* the dictionary call_tool returns when it ends in a failure: line 203 for
\* a response without text content, line 207 for a caught exception
ErrorDict(outcome) ==
    IF outcome = "error:format"
    THEN [error |-> "Formato de resposta inesperado"]
    ELSE [error |-> "str(e)"]

\* `if result.get("success")` of the wrappers: the key is there and true
WrapperSucceeds(result) ==
    "success" \in DOMAIN result /\ result["success"] = TRUE

\* the awaited response arrives and call_tool returns to the menu
CallToolReturnEarly ==
    /\ hpc = "call:await"
    /\ called' = [called EXCEPT !.outcome = "error:format"]
    /\ resolved' = Append(resolved, [id |-> pending, by |-> "response"])
    /\ pending' = 0
    /\ hpc' = "menu"
    /\ UNCHANGED <<session, stdio_context, tools, transport, handshake, sent,
                   replies, exitPath, closeRaised>>
    /\ UNCHANGED <<last_results, serverVars>>
CallToolReturn ==
    /\ hpc = "call:await"
    /\ \E i \in DOMAIN replies :
         /\ replies[i].id = pending
         /\ called' = [called EXCEPT !.outcome = Decode(replies[i].payload)]
    /\ resolved' = Append(resolved, [id |-> pending, by |-> "response"])
    /\ pending' = 0
    /\ hpc' = "menu"
    /\ UNCHANGED <<session, stdio_context, tools, transport, handshake, sent,
                   replies, exitPath, closeRaised>>
    /\ UNCHANGED <<last_results, serverVars>>

\* the channel breaks under the awaited call: call_tool catches the
\* exception, returns {"error": ...} and the menu loop goes on
CallToolError ==
    /\ hpc = "call:await"
    /\ transport = "broken"
    /\ called' = [called EXCEPT !.outcome = "error:transport"]
    /\ resolved' = Append(resolved, [id |-> pending, by |-> "failure"])
    /\ pending' = 0
    /\ hpc' = "menu"
    /\ UNCHANGED <<session, stdio_context, tools, transport, handshake, sent,
                   replies, exitPath, closeRaised>>
    /\ UNCHANGED <<last_results, serverVars>>

\* the host's task is cancelled under the awaited call: no except clause
\* catches it and run_interactive leaves through its finally block
CallToolCancelled ==
    /\ hpc = "call:await"
    /\ called' = [called EXCEPT !.outcome = "cancelled"]
    /\ pending' = 0
    /\ hpc' = "finally:session"
    /\ exitPath' = "cancelled"
    /\ UNCHANGED <<session, stdio_context, tools, transport, handshake, sent,
                   replies, resolved, closeRaised>>
    /\ UNCHANGED <<last_results, serverVars>>

\* the server process dies or a pipe breaks
TransportFails ==
    /\ transport = "open"
    /\ transport' = "broken"
    /\ UNCHANGED <<session, stdio_context, tools, hpc, handshake, sent,
                   replies, resolved, pending, called, exitPath, closeRaised>>
    /\ UNCHANGED <<last_results, serverVars>>

\* choice "0": break
MenuExit ==
    /\ hpc = "menu"
    /\ hpc' = "finally:session"
    /\ exitPath' = "exit"
    /\ UNCHANGED <<session, stdio_context, tools, transport, handshake, sent,
                   replies, resolved, pending, called, closeRaised>>
    /\ UNCHANGED <<last_results, serverVars>>

\* an exception outside the loop's inner try: "Erro fatal"
MenuFatal ==
    /\ hpc = "menu"
    /\ hpc' = "finally:session"
    /\ exitPath' = "fatal"
    /\ UNCHANGED <<session, stdio_context, tools, transport, handshake, sent,
                   replies, resolved, pending, called, closeRaised>>
    /\ UNCHANGED <<last_results, serverVars>>

\* finally, first half: the session, if one was stored, is exited and an
\* exception of its __aexit__ is dropped
FinallySessionUnguarded(ok) ==
    /\ hpc = "finally:session"
    /\ IF session # "None"
       THEN /\ session' = "exited"
            /\ closeRaised' = IF ok THEN closeRaised
                              ELSE closeRaised \cup {"session"}
            /\ hpc' = IF ok THEN "finally:stdio" ELSE "returned"
       ELSE /\ ok
            /\ hpc' = "finally:stdio"
            /\ UNCHANGED <<session, closeRaised>>
    /\ UNCHANGED <<stdio_context, tools, transport, handshake, sent, replies,
                   resolved, pending, called, exitPath>>
    /\ UNCHANGED <<last_results, serverVars>>
FinallySession(ok) ==
    /\ hpc = "finally:session"
    /\ IF session # "None"
       THEN /\ session' = "exited"
            /\ closeRaised' = IF ok THEN closeRaised
                              ELSE closeRaised \cup {"session"}
       ELSE /\ ok
            /\ UNCHANGED <<session, closeRaised>>
    /\ hpc' = "finally:stdio"
    /\ UNCHANGED <<stdio_context, tools, transport, handshake, sent, replies,
                   resolved, pending, called, exitPath>>
    /\ UNCHANGED <<last_results, serverVars>>

\* finally, second half: the stdio context, if one was stored, is exited,
\* which closes the channel; run_interactive returns
FinallyStdio(ok) ==
    /\ hpc = "finally:stdio"
    /\ IF stdio_context # "None"
       THEN /\ stdio_context' = "exited"
            /\ transport' = IF transport = "none" THEN "none" ELSE "closed"
            /\ closeRaised' = IF ok THEN closeRaised
                              ELSE closeRaised \cup {"stdio"}
       ELSE /\ ok
            /\ UNCHANGED <<stdio_context, transport, closeRaised>>
    /\ hpc' = "returned"
    /\ UNCHANGED <<session, tools, handshake, sent, replies, resolved,
                   pending, called, exitPath>>
    /\ UNCHANGED <<last_results, serverVars>>

HostNext ==
    \/ RunInteractive
    \/ \E ok \in BOOLEAN : ConnectStdio(ok)
    \/ \E ok \in BOOLEAN : ConnectSession(ok)
    \/ \E ok \in BOOLEAN : ConnectInitialize(ok)
    \/ \E ok \in BOOLEAN, registry \in Registries : ConnectListTools(ok, registry)
    \/ \E tool_name \in ApiNames : CallTool(tool_name)
    \/ \E payload \in Payloads : ServerReply(payload)
    \/ CallToolReturn
    \/ CallToolError
    \/ CallToolCancelled
    \/ TransportFails
    \/ MenuExit
    \/ MenuFatal
    \/ \E ok \in BOOLEAN : FinallySession(ok)
    \/ \E ok \in BOOLEAN : FinallyStdio(ok)

HostSpec == Init /\ [][HostNext]_vars

(* ------------------ the functions of a list of papers ------------------ *)

\* longest list of papers the functions are applied to
MaxPapers == 6

\* further arxiv.Result records: summaries around the 500 characters of the
\* context, one or two authors, categories that no other record has
WideRecords ==
    << [ title      |-> Some([text |-> "T4", len |-> 10, ws |-> 0]),
         summary    |-> [text |-> "S4", len |-> 500, ws |-> 0],
         authors    |-> <<"Hu">>,
         published  |-> Some(<<"2021", "03", "01">>),
         entry_id   |-> "u4",
         pdf_url    |-> "p4",
         categories |-> <<"a1", "a2", "a3", "a4">> ],
       [ title      |-> Some([text |-> "T5", len |-> 101, ws |-> 1]),
         summary    |-> [text |-> "S5", len |-> 501, ws |-> 0],
         authors    |-> <<"Ivo", "Jan">>,
         published  |-> Some(<<"2023", "11", "02">>),
         entry_id   |-> "u5",
         pdf_url    |-> "p5",
         categories |-> <<"b1", "b2", "b3">> ],
       [ title      |-> Some([text |-> "T6", len |-> 30, ws |-> 0]),
         summary    |-> [text |-> "S6", len |-> 499, ws |-> 0],
         authors    |-> <<"Ana", "Kim", "Lu">>,
         published  |-> None,
         entry_id   |-> "u6",
         pdf_url    |-> "p6",
         categories |-> <<"c1", "c2", "c3">> ],
       [ title      |-> Some([text |-> "T7", len |-> 50, ws |-> 0]),
         summary    |-> [text |-> "S7", len |-> 2000, ws |-> 0],
         authors    |-> <<"Mo", "Ana", "Ned">>,
         published  |-> Some(<<"2021", "07", "19">>),
         entry_id   |-> "u7",
         pdf_url    |-> "p7",
         categories |-> <<"d1", "d2", "cs.AI">> ] >>

\* the papers _search_papers_sync builds from the records it can process
PaperPool ==
    [i \in DOMAIN WideRecords |-> MakePaper(WideRecords[i])]
        \o SearchPapersSync(<<1, 3>>, UpperLimit)

\* lists of papers a search can leave in the cache: any short list over the
\* pool, and the runs through the pool from any paper on
PaperLists ==
    UNION {[1..n -> Range(PaperPool)] : n \in 0..MaxSeq}
        \cup {[i \in 1..n |-> PaperPool[((k + i - 2) % Len(PaperPool)) + 1]] :
                  k \in DOMAIN PaperPool, n \in 0..MaxPapers}

\* the elements of xs once each, in the order of their first occurrence
RECURSIVE Dedup(_)
Dedup(xs) ==
    IF xs = <<>> THEN <<>>
    ELSE LET rest == Dedup(SubSeq(xs, 1, Len(xs) - 1))
         IN  IF xs[Len(xs)] \in Range(rest) THEN rest
             ELSE Append(rest, xs[Len(xs)])

Reverse(xs) == [i \in DOMAIN xs |-> xs[Len(xs) + 1 - i]]

\* list(set(xs)) for a longer xs: of the orders Python can pick, the
\* rotations of the order of first occurrence and of its reverse
SomeOrderings(xs) ==
    LET d == Dedup(xs)
        Rot(k, ys) == [i \in DOMAIN ys |-> ys[((k + i - 2) % Len(ys)) + 1]]
    IN  IF d = <<>> THEN {<<>>}
        ELSE {Rot(k, d) : k \in DOMAIN d} \cup {Rot(k, Reverse(d)) : k \in DOMAIN d}

PureInit ==
    /\ cache \in PaperLists
    /\ tasks = [t \in TaskIds |-> Idle]
    /\ resp = [none |-> TRUE]
    /\ lastOp = "init"
    /\ prevOp = "other"
    /\ lastArgs = NoArgs
    /\ providerLimit = 0
    /\ genInvoked = FALSE
    /\ session = "None"
    /\ stdio_context = "None"
    /\ tools = {}
    /\ transport = "none"
    /\ hpc = "new"
    /\ handshake = <<>>
    /\ sent = <<>>
    /\ replies = <<>>
    /\ resolved = <<>>
    /\ pending = 0
    /\ called = [n |-> 0, from |-> "none", name |-> "none", outcome |-> "none"]
    /\ exitPath = "none"
    /\ closeRaised = {}
    /\ last_results = <<>>

\* get_cache_info on a cache with many categories
GetCacheInfoWide ==
    /\ \E catOrder \in SomeOrderings(AllCategories(cache)),
          yearOrder \in SomeOrderings(AllYears(cache)) :
           resp' = GetCacheInfoResponse(cache, catOrder, yearOrder)
    /\ lastOp' = "get_cache_info"
    /\ lastArgs' = NoArgs
    /\ prevOp' = Kind(lastOp, resp)
    /\ providerLimit' = 0
    /\ genInvoked' = FALSE
    /\ UNCHANGED <<cache, tasks>>
    /\ UNCHANGED hostVars

\* _format_papers_context on the cache, as _analyze_papers_sync and
\* chat_about_papers call it
FormatContext ==
    /\ resp' = [context |-> FormatPapersContext(cache)]
    /\ lastOp' = "_format_papers_context"
    /\ lastArgs' = NoArgs
    /\ prevOp' = Kind(lastOp, resp)
    /\ providerLimit' = 0
    /\ genInvoked' = FALSE
    /\ UNCHANGED <<cache, tasks>>
    /\ UNCHANGED hostVars

PureNext ==
    \/ GetCacheInfoWide
    \/ FormatContext

PureSpec == PureInit /\ [][PureNext]_vars

(* ------------------------- concurrent handlers ------------------------- *)

\* tool calls the server has in progress at a time
MaxConcurrent == 2

\* what a client passes in the concurrent runs
ConcArgs == {1, MaxSmallArg}
ConcMessages == {<<"quantum">>, <<"busque", "quantum">>}
ConcIndexes == {0, 1}

\* what the providers answer in the concurrent runs
ConcOutcomes ==
    {[kind |-> "raise", results |-> <<>>]}
        \cup {[kind |-> "ok", results |-> r] : r \in {<<>>, <<1>>, <<3, 1>>}}
ConcGenOutcomes ==
    {[kind |-> "raise", text |-> <<>>], [kind |-> "text", text |-> <<"x">>]}

ConcInit ==
    /\ cache = <<>>
    /\ tasks = [t \in 1..MaxConcurrent |-> Idle]
    /\ resp = [none |-> TRUE]
    /\ lastOp = "init"
    /\ prevOp = "other"
    /\ lastArgs = NoArgs
    /\ providerLimit = 0
    /\ genInvoked = FALSE
    /\ session = "None"
    /\ stdio_context = "None"
    /\ tools = {}
    /\ transport = "none"
    /\ hpc = "new"
    /\ handshake = <<>>
    /\ sent = <<>>
    /\ replies = <<>>
    /\ resolved = <<>>
    /\ pending = 0
    /\ called = [n |-> 0, from |-> "none", name |-> "none", outcome |-> "none"]
    /\ exitPath = "none"
    /\ closeRaised = {}
    /\ last_results = <<>>

\* line 603: chat_about_papers calls generate_content on the event loop's
\* thread; until it returns no other handler runs
LoopFree == \A t \in DOMAIN tasks : tasks[t].pc # "chat_about_papers:generate"

\* chat_about_papers up to the await of its search or, without a search,
\* up to its call of generate_content
ChatBegin(t, message) ==
    /\ tasks[t] = Idle
    /\ IF NeedsSearch(message) /\ ChatQuery(message) # <<>>
       THEN /\ tasks' = [tasks EXCEPT ![t] =
                           [ pc      |-> "chat_about_papers",
                             message |-> message,
                             query   |-> ChatQuery(message),
                             limit   |-> Clamp(ChatSearchLimit) ]]
            /\ lastOp' = "chat_about_papers:await"
            /\ providerLimit' = Clamp(ChatSearchLimit)
            /\ genInvoked' = FALSE
       ELSE /\ tasks' = [tasks EXCEPT ![t] =
                           [ pc      |-> "chat_about_papers:generate",
                             message |-> message ]]
            /\ lastOp' = "chat_about_papers:generate"
            /\ providerLimit' = 0
            /\ genInvoked' = TRUE
    /\ lastArgs' = [message |-> message]
    /\ prevOp' = Kind(lastOp, resp)
    /\ UNCHANGED <<cache, resp>>
    /\ UNCHANGED hostVars

\* chat_about_papers from the end of its search to its call of
\* generate_content
ChatSearched(t, outcome) ==
    /\ tasks[t].pc = "chat_about_papers"
    /\ cache' = CacheAfterSearch(cache, outcome, tasks[t].limit)
    /\ tasks' = [tasks EXCEPT ![t] =
                    [ pc      |-> "chat_about_papers:generate",
                      message |-> tasks[t].message ]]
    /\ lastOp' = "chat_about_papers:searched"
    /\ lastArgs' = [message |-> tasks[t].message, limit |-> tasks[t].limit,
                    outcome |-> outcome]
    /\ prevOp' = Kind(lastOp, resp)
    /\ providerLimit' = 0
    /\ genInvoked' = TRUE
    /\ UNCHANGED resp
    /\ UNCHANGED hostVars

\* chat_about_papers from the return of generate_content to its own
ChatGenerated(t, gen) ==
    /\ tasks[t].pc = "chat_about_papers:generate"
    /\ resp' = ChatResponse(tasks[t].message, gen, cache)
    /\ tasks' = [tasks EXCEPT ![t] = Idle]
    /\ lastOp' = "chat_about_papers:return"
    /\ lastArgs' = [message |-> tasks[t].message, gen |-> gen]
    /\ prevOp' = Kind(lastOp, resp)
    /\ providerLimit' = 0
    /\ genInvoked' = FALSE
    /\ UNCHANGED cache
    /\ UNCHANGED hostVars

\* a get_cache_info call that comes in is handled when the loop is free
HandleGetCacheInfo == LoopFree /\ GetCacheInfo

ConcNext ==
    \/ LoopFree /\ \E t \in DOMAIN tasks, m \in ConcArgs :
                       SearchPapers(t, <<"quantum">>, m)
    \/ LoopFree /\ \E t \in DOMAIN tasks, o \in ConcOutcomes :
                       SearchPapersResume(t, o)
    \/ LoopFree /\ \E i \in ConcIndexes : GetPaperDetails(i)
    \/ LoopFree /\ \E t \in DOMAIN tasks : AnalyzePapers(t, "summary")
    \/ LoopFree /\ \E t \in DOMAIN tasks, g \in ConcGenOutcomes :
                       AnalyzePapersResume(t, g)
    \/ LoopFree /\ ClearCache
    \/ HandleGetCacheInfo
    \/ LoopFree /\ \E t \in DOMAIN tasks, m \in ConcMessages : ChatBegin(t, m)
    \/ LoopFree /\ \E t \in DOMAIN tasks, o \in ConcOutcomes : ChatSearched(t, o)
    \/ \E t \in DOMAIN tasks, g \in ConcGenOutcomes : ChatGenerated(t, g)

ConcSpec == ConcInit /\ [][ConcNext]_vars

(* ------------------- one session, host and server ---------------------- *)

\* the tools the papers server registers
ServerTools ==
    {"search_papers", "get_paper_details", "analyze_papers", "clear_cache",
     "get_cache_info", "chat_about_papers"}

\* what the user types for the number of results: digits, or anything else,
\* which stands for 5
MenuLimits == (0..MaxSmallArg) \cup {ChatSearchLimit, UpperLimit}

\* the host after connect returned True: in the menu loop of
\* run_interactive, over an entered session; the server as it starts
SessionInit ==
    /\ cache = <<>>
    /\ tasks = [t \in TaskIds |-> Idle]
    /\ resp = [none |-> TRUE]
    /\ lastOp = "init"
    /\ prevOp = "other"
    /\ lastArgs = NoArgs
    /\ providerLimit = 0
    /\ genInvoked = FALSE
    /\ session = "entered"
    /\ stdio_context = "entered"
    /\ tools = ServerTools
    /\ transport = "open"
    /\ hpc = "menu"
    /\ handshake = <<"initialize", "list_tools">>
    /\ sent = <<>>
    /\ replies = <<>>
    /\ resolved = <<>>
    /\ pending = 0
    /\ called = [n |-> 0, from |-> "none", name |-> "none", outcome |-> "none"]
    /\ exitPath = "none"
    /\ closeRaised = {}
    /\ last_results = <<>>

\* a wrapper's call_tool from the menu loop goes through: the local checks
\* pass and the channel carries the request and the response
Delivered(tool_name) ==
    /\ hpc = "menu"
    /\ session # "None"
    /\ KnownTool(tool_name)
    /\ CanSend

\* the handler of the server ran from the request to its return of r; the
\* host is back in the menu loop, its session as it was
Handled(op, args, r) ==
    /\ resp' = r
    /\ lastOp' = op
    /\ lastArgs' = args
    /\ prevOp' = Kind(lastOp, resp)
    /\ providerLimit' = 0
    /\ genInvoked' = FALSE
    /\ UNCHANGED tasks
    /\ UNCHANGED <<session, stdio_context, tools, transport, hpc, handshake,
                   sent, replies, resolved, pending, called, exitPath,
                   closeRaised>>

\* choice "1": a query that is not empty goes to search_papers; the
\* wrapper stores the papers of a result that succeeded
MenuSearch(query, max_results, outcome) ==
    /\ Delivered("search_papers")
    /\ query # <<>>
    /\ LET limit == Clamp(max_results)
           r == SearchPapersResponse(SearchReturn(outcome, limit), query)
       IN  /\ cache' = CacheAfterSearch(cache, outcome, limit)
           /\ Handled("search_papers:resume",
                      [query |-> query, limit |-> limit, outcome |-> outcome], r)
           /\ last_results' = IF WrapperSucceeds(r) THEN r.papers
                               ELSE last_results

\* choice "2": with papers in last_results, a number from 1 to their count
\* goes to get_paper_details, less one
MenuDetails(index) ==
    /\ Delivered("get_paper_details")
    /\ last_results # <<>>
    /\ 0 <= index /\ index < Len(last_results)
    /\ Handled("get_paper_details", [paper_index |-> index],
               GetPaperDetailsResponse(cache, index))
    /\ UNCHANGED <<cache, last_results>>

\* choices "3", "4", "5": analyze_papers
MenuAnalyze(analysis_type, gen) ==
    /\ Delivered("analyze_papers")
    /\ Handled("analyze_papers:resume",
               [analysis_type |-> analysis_type, gen |-> gen,
                handed |-> Len(cache)],
               IF AnalyzeAccepts(cache, analysis_type)
               THEN AnalyzeResponse(cache, analysis_type, AnalysisText(gen))
               ELSE AnalyzeRejection(cache, analysis_type))
    /\ UNCHANGED <<cache, last_results>>

\* choice "6": a message that is not empty goes to chat_about_papers; the
\* wrapper prints the answer
MenuChat(message, outcome, gen) ==
    /\ Delivered("chat_about_papers")
    /\ message # <<>>
    /\ cache' = IF NeedsSearch(message) /\ ~EmptyQuery(ChatQuery(message))
                THEN CacheAfterSearch(cache, outcome, Clamp(ChatSearchLimit))
                ELSE cache
    /\ Handled("chat_about_papers:resume",
               [message |-> message, gen |-> gen, search |-> outcome.kind],
               ChatResponse(message, gen, cache'))
    /\ UNCHANGED last_results

\* choice "7": get_cache_info
MenuCacheInfo ==
    /\ Delivered("get_cache_info")
    /\ \E catOrder \in Orderings(Range(AllCategories(cache))),
          yearOrder \in Orderings(Range(AllYears(cache))) :
           Handled("get_cache_info", NoArgs,
                   GetCacheInfoResponse(cache, catOrder, yearOrder))
    /\ UNCHANGED <<cache, last_results>>

\* choice "8", confirmed: clear_cache; the wrapper empties last_results
\* when the result succeeded
MenuClear ==
    /\ Delivered("clear_cache")
    /\ cache' = <<>>
    /\ Handled("clear_cache", NoArgs, ClearCacheResponse(Len(cache)))
    /\ last_results' = IF WrapperSucceeds(ClearCacheResponse(Len(cache)))
                       THEN <<>> ELSE last_results

SessionNext ==
    \/ \E q \in Queries, m \in MenuLimits, o \in ProviderOutcomes :
           MenuSearch(q, m, o)
    \/ \E i \in 0..(UpperLimit - 1) : MenuDetails(i)
    \/ \E a \in ValidTypes, g \in ConcGenOutcomes : MenuAnalyze(a, g)
    \/ \E m \in ChatMessages, o \in ProviderOutcomes, g \in ConcGenOutcomes :
           MenuChat(m, o, g)
    \/ MenuCacheInfo
    \/ MenuClear

SessionSpec == SessionInit /\ [][SessionNext]_vars

(* ------------------------------ properties ----------------------------- *)

\* C1: a search_papers call that returns success leaves the cache equal to
\* the list of papers it returns, whatever the cache held before, and a
\* get_cache_info that follows it immediately reports that call's count.
C1_SearchReplacesCache ==
    [][ /\ (lastOp' = "search_papers:resume" /\ resp'.success)
            => /\ cache' = resp'.papers
               /\ Len(cache') = resp'.count
        /\ (lastOp = "search_papers:resume" /\ resp.success
                /\ lastOp' = "get_cache_info")
            => resp'.cached_papers = resp.count ]_vars

C1_Witness ==
    /\ prevOp = "search_papers:ok"
    /\ lastOp = "get_cache_info"
    /\ resp.cached_papers = 2
    /\ cache[1] # cache[2]

\* C2: get_paper_details(i) returns success with the paper at position i
\* exactly when 0 <= i < length of the cache; otherwise it returns failure
\* and the envelope has no 'paper' field.
C2_DetailsBoundsChecked ==
    lastOp = "get_paper_details" =>
        LET i == lastArgs.paper_index IN
        /\ resp.success <=> (0 <= i /\ i < Len(cache))
        /\ resp.success => "paper" \in DOMAIN resp /\ resp.paper = cache[i + 1]
        /\ ~resp.success => "paper" \notin DOMAIN resp

C2_Witness ==
    /\ lastOp = "get_paper_details"
    /\ cache # <<>>
    /\ lastArgs.paper_index = Len(cache)
    /\ ~resp.success

\* C3: whatever integer max_results is passed, the limit handed to the
\* search provider is max_results forced into [1,10], and the call returns
\* at most that many papers and, when the provider answered, caches at most
\* that many.
C3_LimitClamped ==
    /\ lastOp = "search_papers:await" =>
           LET m == lastArgs.max_results IN
           /\ providerLimit = (IF m < 1 THEN 1 ELSE IF m > 10 THEN 10 ELSE m)
           /\ \E t \in DOMAIN tasks : tasks[t].pc = "search_papers"
                                    /\ tasks[t].limit = providerLimit
    /\ lastOp = "search_papers:resume" =>
           /\ lastArgs.limit \in 1..10
           /\ resp.count <= lastArgs.limit
           /\ Len(resp.papers) <= lastArgs.limit
           /\ lastArgs.outcome.kind = "ok" => Len(cache) <= lastArgs.limit

C3_Witness ==
    /\ lastOp = "search_papers:resume"
    /\ lastArgs.limit = 10
    /\ Len(lastArgs.outcome.results) > 10
    /\ Len(cache) = 10

\* C4: clear_cache immediately followed by get_cache_info yields success
\* with cached_papers = 0, from any cache state.
C4_ClearThenInfoIsZero ==
    [][ (lastOp = "clear_cache" /\ lastOp' = "get_cache_info")
            => (resp'.success /\ resp'.cached_papers = 0) ]_vars

C4_Witness ==
    /\ prevOp = "clear_cache"
    /\ lastOp = "get_cache_info"
    /\ resp.cached_papers = 0

\* C5: an analyze_papers call made while the cache is empty returns failure
\* for every analysis_type and issues no generation request.
C5_AnalyzeEmptyCacheFails ==
    [][ (cache = <<>> /\ lastOp' \in {"analyze_papers", "analyze_papers:await"})
            => /\ lastOp' = "analyze_papers"
               /\ ~resp'.success
               /\ ~genInvoked' ]_vars

C5_Witness ==
    /\ lastOp = "analyze_papers"
    /\ lastArgs.analysis_type = "trends"
    /\ cache = <<>>
    /\ ~resp.success
    /\ ~genInvoked

\* C6: an analyze_papers call with an analysis_type other than summary,
\* trends or comparison returns failure in every cache state and issues no
\* generation request.
C6_AnalyzeBadTypeFails ==
    (/\ lastOp \in {"analyze_papers", "analyze_papers:await"}
     /\ lastArgs.analysis_type \notin {"summary", "trends", "comparison"})
        => /\ lastOp = "analyze_papers"
           /\ ~resp.success
           /\ ~genInvoked

C6_Witness ==
    /\ lastOp = "analyze_papers"
    /\ lastArgs.analysis_type = "bogus"
    /\ cache # <<>>
    /\ ~resp.success

\* C7: no step of get_paper_details, analyze_papers or get_cache_info
\* changes the cache, on any path and for any arguments.
C7_ReadsLeaveCache ==
    [][ lastOp' \in {"get_paper_details", "get_cache_info", "analyze_papers",
                     "analyze_papers:await", "analyze_papers:resume"}
            => cache' = cache ]_vars

C7_Witness ==
    /\ lastOp = "analyze_papers:resume"
    /\ resp.success
    /\ resp.papers_analyzed = 2
    /\ Len(cache) = 2

\* C8 as stated: the cache changes only when a search_papers call stores
\* its result or when clear_cache empties it.
C8_OnlySearchHandlerReplaces ==
    [][ cache' # cache
            => \/ lastOp' = "search_papers:resume"
               \/ lastOp' = "clear_cache" /\ cache' = <<>> ]_vars

\* the words that make chat_about_papers search, in any letter case
SearchWords == {"busque", "Busque", "procure", "encontre", "pesquise"}

\* C8 amended: the cache changes only when a search_papers call stores its
\* result, when a chat_about_papers call whose message contains a search
\* keyword stores the result of its automatic search, or when clear_cache
\* empties it.
C8_OnlySearchOrChatSearchReplaces ==
    [][ cache' # cache
            => \/ lastOp' = "search_papers:resume"
               \/ /\ lastOp' = "chat_about_papers:resume"
                  /\ \E i \in DOMAIN lastArgs'.message :
                         lastArgs'.message[i] \in SearchWords
               \/ lastOp' = "clear_cache" /\ cache' = <<>> ]_vars

C8_Witness ==
    /\ lastOp = "chat_about_papers:resume"
    /\ resp.success
    /\ resp.papers_in_context = ChatSearchLimit
    /\ Len(cache) = ChatSearchLimit

\* the usable records of a provider answer, in the provider's order
Usable(results) == SelectSeq(results, LAMBDA id : RawRecords[id].title # None)

\* C9: after a search for which the provider yields at least n usable
\* records (n the clamped max_results), the cache holds exactly the first n
\* of them in the provider's order; get_paper_details(i) returns the entry
\* at position i+1 of the cache; and the cache stays as it is until a search
\* stores a result or clear_cache runs.
C9_CacheKeepsProviderOrder ==
    [][ /\ (/\ lastOp' = "search_papers:resume"
            /\ lastArgs'.outcome.kind = "ok"
            /\ Len(Usable(lastArgs'.outcome.results)) >= lastArgs'.limit)
            => /\ Len(cache') = lastArgs'.limit
               /\ \A i \in 1..lastArgs'.limit :
                      cache'[i].url =
                          RawRecords[Usable(lastArgs'.outcome.results)[i]].entry_id
        /\ (lastOp' = "get_paper_details" /\ resp'.success)
            => resp'.paper = cache[lastArgs'.paper_index + 1]
        /\ cache' # cache
            => lastOp' \in {"search_papers:resume", "chat_about_papers:resume",
                            "clear_cache"} ]_vars

C9_Witness ==
    /\ lastOp = "search_papers:resume"
    /\ lastArgs.outcome.kind = "ok"
    /\ lastArgs.limit = 2
    /\ Len(Usable(lastArgs.outcome.results)) > 2
    /\ Len(cache) = 2
    /\ cache[1].url # cache[2].url

\* C10: clear_cache returns success and its message reports the number of
\* papers the cache held immediately before the call.
C10_ClearReportsPriorCount ==
    [][ lastOp' = "clear_cache"
            => /\ resp'.success
               /\ resp'.message[2] = Len(cache)
               /\ cache' = <<>> ]_vars

C10_Witness ==
    /\ lastOp = "clear_cache"
    /\ resp.success
    /\ resp.message[2] = 2
    /\ cache = <<>>

C12_AnalyzeTextNeverEmpty ==
    (lastOp = "analyze_papers:resume" /\ lastArgs.gen.kind # "raise")
        => /\ resp.success
           /\ resp.analysis_type = lastArgs.analysis_type
           /\ resp.analysis # <<>>

\* the handler steps that return an envelope
Returned ==
    lastOp \in {"search_papers", "search_papers:resume", "get_paper_details",
                "analyze_papers", "analyze_papers:resume", "clear_cache",
                "get_cache_info", "chat_about_papers",
                "chat_about_papers:resume"}

\* the call that just returned met a tool-level failure: a bad index, an
\* empty cache or a bad type for the analysis, or a provider that raised
ToolLevelFailure ==
    \/ /\ lastOp = "get_paper_details"
       /\ ~(0 <= lastArgs.paper_index /\ lastArgs.paper_index < Len(cache))
    \/ lastOp = "analyze_papers"
    \/ lastOp = "search_papers:resume" /\ lastArgs.outcome.kind = "raise"
    \/ /\ lastOp \in {"analyze_papers:resume", "chat_about_papers",
                      "chat_about_papers:resume"}
       /\ lastArgs.gen.kind = "raise"

\* C13: every handler returns, on every path, an envelope with a boolean
\* success flag, and a tool-level failure is returned as success = false
\* with a message.
C13_UniformEnvelope ==
    Returned =>
        /\ "success" \in DOMAIN resp
        /\ resp.success \in BOOLEAN
        /\ ToolLevelFailure => (~resp.success /\ "message" \in DOMAIN resp)

\* C14: a call_tool on a stored session with a name that is not in the
\* registry ends with the local error, puts no request on the channel and
\* waits for nothing; the registry and the session stay as they were.
C14_UnknownToolFailsLocally ==
    [][(called'.n = called.n + 1 /\ session # "None"
            /\ called'.name \notin tools)
        => /\ called'.outcome = "ValueError"
           /\ sent' = sent
           /\ pending' = pending
           /\ hpc' = hpc
           /\ tools' = tools
           /\ session' = session]_vars

C14_Witness ==
    /\ called.outcome = "ValueError"
    /\ called.from = "menu"
    /\ called.name \notin tools
    /\ session = "entered"
    /\ transport = "open"

\* C15: the handshake steps complete in the order initialize, list_tools;
\* a call request is on the channel only if both completed, and none is
\* after a connect that failed.
C15_NoCallBeforeHandshake ==
    /\ handshake \in {<<>>, <<"initialize">>, <<"initialize", "list_tools">>}
    /\ sent # <<>> => handshake = <<"initialize", "list_tools">>
    /\ exitPath = "connect" => sent = <<>>

C15_Witness ==
    /\ sent # <<>>
    /\ handshake = <<"initialize", "list_tools">>
    /\ called.from = "menu"

\* C16: at most one call request is unresolved at any time, and the calls
\* resolve in the order their requests were sent.
C16_OneOutstandingCall ==
    /\ Len(sent) - Len(resolved) <= 1
    /\ \A i \in DOMAIN resolved : i \in DOMAIN sent /\ resolved[i].id = sent[i].id

C16_Witness ==
    /\ Len(sent) = 2
    /\ Len(resolved) = 2
    /\ resolved[1].by = "response"
    /\ resolved[2].by = "response"

C18_ClosedSessionNotConnected ==
    [][(called'.n = called.n + 1 /\ hpc = "returned" /\ session = "exited"
            /\ handshake = <<"initialize", "list_tools">>)
        => /\ called'.outcome = "RuntimeError"
           /\ sent' = sent
           /\ hpc' = "returned"]_vars

\* the finally block, and after it
Terminal == {"finally:session", "finally:stdio", "returned"}

\* C19: once a tool call of the menu loop has met a transport error, the
\* host is closing or has closed the session, so that no further call is
\* made on it.
C19_TransportErrorIsFatal ==
    (called.from = "menu" /\ called.outcome = "error:transport")
        => hpc \in Terminal

\* C20: when run_interactive has returned, no session and no stdio context
\* is left entered, whichever way it ended and whether or not closing the
\* session raised.
C20_EverythingExited ==
    hpc = "returned" => (session # "entered" /\ stdio_context # "entered")

C20_Witness ==
    /\ hpc = "returned"
    /\ exitPath = "fatal"
    /\ "session" \in closeRaised
    /\ session = "exited"
    /\ stdio_context = "exited"
    /\ transport = "closed"

\* the fields of the get_cache_info statistics
InfoFields ==
    {"success", "cached_papers", "paper_titles", "categories",
     "publication_years", "total_authors"}

\* C21 as stated: in every cache state, the empty cache included, the
\* get_cache_info response has the fields success, cached_papers,
\* paper_titles, categories, publication_years and total_authors.
C21_InfoFieldsAlways ==
    lastOp = "get_cache_info" => InfoFields \subseteq DOMAIN resp

\* C21 as amended: for a non-empty cache the get_cache_info response has
\* all of these fields; for the empty cache it has success = true,
\* cached_papers = 0 and a message, and no other field.
C21_InfoFieldsUnlessEmpty ==
    lastOp = "get_cache_info" =>
        IF cache = <<>>
        THEN /\ DOMAIN resp = {"success", "cached_papers", "message"}
             /\ resp.success
             /\ resp.cached_papers = 0
        ELSE InfoFields \subseteq DOMAIN resp

C21_Witness ==
    /\ lastOp = "get_cache_info"
    /\ Len(cache) = 2
    /\ InfoFields \subseteq DOMAIN resp

\* C25 as stated: the cache holds at most 10 papers in every reachable
\* state, and at most 5 after a chat_about_papers call that ran a search
\* at the provider.
C25_CacheCaps ==
    /\ Len(cache) <= UpperLimit
    /\ lastOp = "chat_about_papers:resume" => Len(cache) <= ChatSearchLimit

\* C25 as amended: the cache holds at most 10 papers in every reachable
\* state, and at most 5 after a chat-triggered search whose provider
\* request succeeded.
C25_CacheCapsWhenStored ==
    /\ Len(cache) <= UpperLimit
    /\ (lastOp = "chat_about_papers:resume" /\ lastArgs.search = "ok")
           => Len(cache) <= ChatSearchLimit

C25_Witness ==
    /\ lastOp = "chat_about_papers:resume"
    /\ lastArgs.search = "ok"
    /\ Len(cache) = ChatSearchLimit

\* the message says that the cache holds n papers: for n = 0 in words
\* ("Nenhum paper no cache"), otherwise with the number
StatesCacheSize(message, n) ==
    IF n = 0
    THEN message = <<"Nenhum paper no cache.">>
    ELSE Len(message) = 3 /\ message[2] = n

\* C26: a get_paper_details call whose index lies outside the range of the
\* cache, any index for the empty cache, returns a failure envelope whose
\* message states the size the cache has at that call.
C26_BadIndexStatesSize ==
    (lastOp = "get_paper_details"
        /\ ~(0 <= lastArgs.paper_index /\ lastArgs.paper_index < Len(cache)))
        => /\ ~resp.success
           /\ DOMAIN resp = {"success", "message"}
           /\ StatesCacheSize(resp.message, Len(cache))

C26_Witness ==
    /\ lastOp = "get_paper_details"
    /\ Len(cache) = 2
    /\ lastArgs.paper_index = UpperLimit
    /\ ~resp.success
    /\ resp.message[2] = 2

\* the generator returned a text with something in it besides whitespace
HasContent(gen) == gen.kind = "text" /\ Strip(gen.text) # <<>>

\* C28: when the generator returns, the analysis step returns its text if
\* that text has content, and the fixed fallback string if there is no
\* response or no text with content; what it returns is never empty.
C28_AnalysisOrFallback ==
    (lastOp = "analyze_papers:resume" /\ lastArgs.gen.kind # "raise")
        => /\ HasContent(lastArgs.gen) => resp.analysis = Strip(lastArgs.gen.text)
           /\ ~HasContent(lastArgs.gen)
                  => resp.analysis = <<"Analise nao disponivel.">>
           /\ resp.analysis # <<>>

\* C29: a search_papers call whose provider request raises returns
\* success = false with count 0 and no papers, and leaves the cache as it
\* was before the call returned.
C29_ProviderFailureKeepsCache ==
    [][(lastOp' = "search_papers:resume" /\ lastArgs'.outcome.kind = "raise")
        => /\ ~resp'.success
           /\ resp'.count = 0
           /\ resp'.papers = <<>>
           /\ cache' = cache]_vars

C29_Witness ==
    /\ lastOp = "search_papers:resume"
    /\ lastArgs.outcome.kind = "raise"
    /\ Len(cache) = 2
    /\ ~resp.success
    /\ resp.count = 0

\* C30: a search_papers call whose provider request succeeds with no usable
\* record returns success = false with count 0 and leaves the cache empty,
\* whatever it held: afterwards get_paper_details fails for every index
\* and analyze_papers for every type.
C30_EmptyResultEmptiesCache ==
    [][(lastOp' = "search_papers:resume" /\ lastArgs'.outcome.kind = "ok"
            /\ Usable(lastArgs'.outcome.results) = <<>>)
        => /\ ~resp'.success
           /\ resp'.count = 0
           /\ cache' = <<>>
           /\ \A i \in IntArgs : ~GetPaperDetailsResponse(cache', i).success
           /\ \A a \in AnalysisTypes : ~AnalyzeAccepts(cache', a)]_vars

C30_Witness ==
    /\ lastOp = "search_papers:resume"
    /\ lastArgs.outcome.kind = "ok"
    /\ lastArgs.outcome.results # <<>>
    /\ Usable(lastArgs.outcome.results) = <<>>
    /\ cache = <<>>
    /\ ~resp.success

\* no element occurs twice in xs
NoDuplicates(xs) == \A i, j \in DOMAIN xs : xs[i] = xs[j] => i = j

\* C22: for a non-empty cache, get_cache_info reports the length of the
\* cache as cached_papers; as categories at most 10 tags, none twice, each
\* a category of some cached paper; as publication_years, each once, the
\* years of the cached papers whose date is not "N/A"; and as total_authors
\* the sum of the lengths of the author lists.
C22_CacheStatistics ==
    (lastOp = "get_cache_info" /\ cache # <<>>) =>
        /\ resp.cached_papers = Len(cache)
        /\ Len(resp.categories) <= 10
        /\ NoDuplicates(resp.categories)
        /\ \A i \in DOMAIN resp.categories :
               \E p \in DOMAIN cache, k \in 1..3 :
                   /\ k \in DOMAIN cache[p].categories
                   /\ cache[p].categories[k] = resp.categories[i]
        /\ NoDuplicates(resp.publication_years)
        /\ Range(resp.publication_years) =
               {cache[p].published[1] :
                    p \in {q \in DOMAIN cache : cache[q].published # <<"N/A">>}}
        /\ resp.total_authors =
               Cardinality({pk \in (DOMAIN cache) \X (1..5) :
                                pk[2] \in DOMAIN cache[pk[1]].authors})

\* more than 10 categories in the cache, a paper without a date, and an
\* author of two papers
C22_Witness ==
    /\ lastOp = "get_cache_info"
    /\ Len(cache) = 6
    /\ Cardinality(Range(AllCategories(cache))) > 10
    /\ Len(resp.categories) = 10
    /\ \E p \in DOMAIN cache : cache[p].published = <<"N/A">>
    /\ Len(resp.publication_years) = 2
    /\ \E p, q \in DOMAIN cache :
           p # q /\ Range(cache[p].authors) \cap Range(cache[q].authors) # {}

\* C27: the context has an entry for each of the first 5 papers of the
\* list and no other, numbered from 1 in list order; an entry carries the
\* first 500 characters of the summary at most, the first 2 authors at
\* most, and the "et al." marker exactly for a paper with more than 2.
C27_ContextOfFirstFive ==
    lastOp = "_format_papers_context" =>
        LET ctx == resp.context IN
        /\ Len(ctx) = (IF Len(cache) < 5 THEN Len(cache) ELSE 5)
        /\ \A i \in DOMAIN ctx :
             /\ ctx[i].number = i
             /\ ctx[i].title = cache[i].title
             /\ ctx[i].url = cache[i].url
             /\ ctx[i].summary.text = cache[i].summary.text
             /\ ctx[i].summary.len =
                    (IF cache[i].summary.len < 500 THEN cache[i].summary.len
                     ELSE 500)
             /\ Len(ctx[i].authors) =
                    (IF Len(cache[i].authors) < 2 THEN Len(cache[i].authors)
                     ELSE 2)
             /\ \A k \in DOMAIN ctx[i].authors :
                    ctx[i].authors[k] = cache[i].authors[k]
             /\ ctx[i].et_al <=> Len(cache[i].authors) > 2

\* a list of 6 papers, with a summary cut to 500 characters, a paper with
\* the marker and one without
C27_Witness ==
    /\ lastOp = "_format_papers_context"
    /\ Len(cache) = 6
    /\ Len(resp.context) = 5
    /\ \E i \in DOMAIN resp.context :
           resp.context[i].summary.len = 500 /\ cache[i].summary.len > 500
    /\ \E i \in DOMAIN resp.context : resp.context[i].et_al
    /\ \E i \in DOMAIN resp.context :
           ~resp.context[i].et_al /\ Len(resp.context[i].authors) = 2

\* the whole list a search leaves whose provider answered with outcome:
\* the first limit usable records, as papers
CompleteResult(outcome, limit) ==
    LET u == Usable(outcome.results)
    IN  [i \in 1..(IF Len(u) < limit THEN Len(u) ELSE limit) |->
             MakePaper(RawRecords[u[i]])]

\* C23: under any interleaving of the handlers, the cache changes only by
\* becoming empty in a clear_cache or by becoming the whole result list of
\* the one search that just ended, and the list handed to an analysis is
\* the cache of that moment and stays what it was while the analysis
\* waits; so what a handler reads is empty or one search's whole list.
C23_WholeListsOnly ==
    [][/\ cache' # cache =>
            \/ lastOp' = "clear_cache" /\ cache' = <<>>
            \/ /\ lastOp' \in {"search_papers:resume", "chat_about_papers:searched"}
               /\ lastArgs'.outcome.kind = "ok"
               /\ cache' = CompleteResult(lastArgs'.outcome, lastArgs'.limit)
       /\ \A t \in DOMAIN tasks :
            tasks'[t].pc = "analyze_papers" =>
                tasks'[t].papers = (IF tasks[t].pc = "analyze_papers"
                                    THEN tasks[t].papers ELSE cache)]_vars

\* a search has replaced the cache while an analysis holds the list of an
\* earlier search
C23_Witness ==
    /\ lastOp = "search_papers:resume"
    /\ cache # <<>>
    /\ \E t \in DOMAIN tasks :
         /\ tasks[t].pc = "analyze_papers"
         /\ tasks[t].papers # <<>>
         /\ tasks[t].papers # cache

\* the call of task t is waiting for the search provider or the
\* generation provider
WaitingOnProvider(t) ==
    tasks[t].pc \in {"search_papers", "analyze_papers", "chat_about_papers",
                     "chat_about_papers:generate"}

\* C24: while a tool call waits for the search provider or the generation
\* provider, the event loop is free: a get_cache_info call that comes in
\* can be handled before the provider answers.
C24_LoopNeverBlocked ==
    (\E t \in DOMAIN tasks : WaitingOnProvider(t)) => ENABLED HandleGetCacheInfo

\* C31: a search_papers call with an empty query returns at once, without
\* a request to the search provider, success = false with count 0 and no
\* papers, and leaves the cache as it was.
C31_EmptyQueryIsLocal ==
    [][(lastOp' \in {"search_papers", "search_papers:await"}
            /\ lastArgs'.query = <<>>)
        => /\ lastOp' = "search_papers"
           /\ providerLimit' = 0
           /\ tasks' = tasks
           /\ ~resp'.success
           /\ resp'.count = 0
           /\ resp'.papers = <<>>
           /\ cache' = cache]_vars

\* an empty query against a cache of two papers
C31_Witness ==
    /\ lastOp = "search_papers"
    /\ lastArgs.query = <<>>
    /\ Len(cache) = 2
    /\ ~resp.success
    /\ resp.count = 0
    /\ providerLimit = 0

\* C33: under any interleaving with search_papers, chat_about_papers and
\* clear_cache calls, the papers_analyzed of an analyze_papers call that
\* returns success is the length of the list handed to the analysis when
\* the call began.
C33_AnalyzedCountsSnapshot ==
    (lastOp = "analyze_papers:resume" /\ resp.success)
        => resp.papers_analyzed = lastArgs.handed

\* the message has one of the search keywords in it
HasKeyword(message) == Range(message) \cap SearchWords # {}

\* C34: a chat_about_papers call whose message has no search keyword makes
\* no search and leaves the cache as it was on every path.  One whose
\* message has a keyword makes one search, with limit 5, before it calls
\* the generator (none reaches the provider when nothing is left of the
\* message besides keywords), and the cache changes only by becoming the
\* result of that search; when the generator then raises, the call returns
\* success = false and the cache stays what the search made it.
C34_ChatSearchThenGenerate ==
    [][/\ lastOp' = "chat_about_papers"
            => /\ cache' = cache
               /\ providerLimit' = 0
               /\ tasks' = tasks
               /\ genInvoked'
               /\ HasKeyword(lastArgs'.message)
                      => ChatQuery(lastArgs'.message) = <<>>
               /\ lastArgs'.gen.kind = "raise" => ~resp'.success
       /\ lastOp' = "chat_about_papers:await"
            => /\ HasKeyword(lastArgs'.message)
               /\ providerLimit' = 5
               /\ ~genInvoked'
               /\ cache' = cache
       /\ lastOp' = "chat_about_papers:resume"
            => /\ HasKeyword(lastArgs'.message)
               /\ lastOp = "chat_about_papers:await"
                      => lastArgs.message = lastArgs'.message
               /\ \E t \in DOMAIN tasks :
                      /\ tasks[t].pc = "chat_about_papers"
                      /\ tasks[t].message = lastArgs'.message
                      /\ tasks'[t] = Idle
               /\ lastArgs'.limit = 5
               /\ providerLimit' = 0
               /\ genInvoked'
               /\ cache' = (IF lastArgs'.outcome.kind = "ok"
                            THEN CompleteResult(lastArgs'.outcome, 5)
                            ELSE cache)
               /\ lastArgs'.gen.kind = "raise" => ~resp'.success]_vars

\* the search of a chat stored five papers, then the generator raised
C34_Witness ==
    /\ lastOp = "chat_about_papers:resume"
    /\ lastArgs.outcome.kind = "ok"
    /\ lastArgs.gen.kind = "raise"
    /\ ~resp.success
    /\ Len(cache) = ChatSearchLimit
    /\ cache = CompleteResult(lastArgs.outcome, 5)

\* how a call_tool that got past its local checks can end in a failure
CallFailures == {"error:transport", "error:format", "error:decode"}

\* C35 as stated: a call_tool that got past its local checks and is over
\* has returned, a result or a dictionary of an error; it has not raised.
C35_NeverRaisesPastChecks ==
    called.outcome \notin {"none", "RuntimeError", "ValueError", "awaiting"}
        => called.outcome \in CallFailures \cup {"result"}

\* C35 amended: a call_tool that got past its local checks raises only
\* when the host's task is cancelled under its await.  A channel that
\* fails, text that does not decode and a response without text content
\* each make it return, to the menu loop that called it, a dictionary that
\* has the key 'error' and not the key 'success', which the wrappers take
\* for a failed call.
C35_FailuresAreReturned ==
    [][/\ (called'.n = called.n + 1
              /\ called'.outcome \notin {"RuntimeError", "ValueError", "awaiting"})
            => /\ called'.outcome = "error:transport"
               /\ ~(session = "entered" /\ transport = "open")
               /\ hpc' = hpc
       /\ (called'.n = called.n /\ called.outcome = "awaiting"
              /\ called'.outcome # "awaiting")
            => \/ called'.outcome = "cancelled" /\ exitPath' = "cancelled"
               \/ /\ hpc' = "menu"
                  /\ \/ called'.outcome = "error:transport" /\ transport = "broken"
                     \/ \E i \in DOMAIN replies :
                          /\ replies[i].id = pending
                          /\ replies[i].payload = "json"
                                 => called'.outcome = "result"
                          /\ replies[i].payload = "empty"
                                 => called'.outcome = "error:format"
                          /\ replies[i].payload = "badjson"
                                 => called'.outcome = "error:decode"
       /\ called'.outcome \in CallFailures
            => /\ "error" \in DOMAIN ErrorDict(called'.outcome)
               /\ "success" \notin DOMAIN ErrorDict(called'.outcome)
               /\ ~WrapperSucceeds(ErrorDict(called'.outcome))]_vars

\* the second call of a session returned the error of text that does not
\* decode, after the first returned that of a response without text
C35_Witness ==
    /\ called.n = 2
    /\ called.outcome = "error:decode"
    /\ hpc = "menu"
    /\ Len(replies) = 2
    /\ replies[1].payload = "empty"
    /\ replies[2].payload = "badjson"
    /\ ~WrapperSucceeds(ErrorDict(called.outcome))

\* C32: after any sequence of the menu's operations in one session, the
\* host's last_results is as long as the server's cache, so that every
\* index the host accepts is one the server has a paper for.
C32_HostMirrorsCache ==
    /\ Len(last_results) = Len(cache)
    /\ \A i \in 0..(UpperLimit - 1) :
           (0 <= i /\ i < Len(last_results)) => i < Len(cache)

=============================================================================
